---- MODULE Spec2Model ----
(***************************************************************************)
(* LyricSlice: the client-side lyric analyzer (analyzeLyrics and its       *)
(* helpers).  A JavaScript string is a sequence of one-character strings,  *)
(* so that trimming, splitting, lower-casing and stripping are computed    *)
(* character by character, as the code computes them.                      *)
(***************************************************************************)
EXTENDS Integers, Sequences, FiniteSets, TLC

VARIABLES lyrics, pc, lines, syllableData, lastWords, index,
          rhymeScheme, rhymeLabel, usedLabels, outcome, result, error,
          calls, finished,
          version, analysis, toast, activeTab, uiPc, submitted,
          clicks, lastClick, lastSuccessful,
          formLyrics, remix, editedRemix, remixed, savedLyrics, now, removal

\* the caller of analyzeLyrics: the number of calls made, and the argument
\* and outcome of each call that has finished
callVars == <<calls, finished>>

\* LyricSliceClient: which of its two versions runs, its React state, the
\* toast on display, the Analyze request in flight, and what the clicks on
\* Analyze have done so far
\* LyricSliceClient: the lyrics field of the form, the remix on display and
\* the user's edit of it, the values the last Remix click was given, the
\* saved list, the clock that Date.now() reads, and for the last click on a
\* Remove button the position of its card and the positions it dropped
clientVars == <<formLyrics, remix, editedRemix, remixed, savedLyrics, now, removal>>

uiVars == <<version, analysis, toast, activeTab, uiPc, submitted,
            clicks, lastClick, lastSuccessful, clientVars>>

vars == <<lyrics, pc, lines, syllableData, lastWords, index,
          rhymeScheme, rhymeLabel, usedLabels, outcome, result, error,
          callVars, uiVars>>

(***************************************************************************)
(* Bounds of the checked inputs.                                           *)
(***************************************************************************)
MaxLines == 3

MaxGroups == 54

MaxMixed == 24

\* calls of analyzeLyrics made one after the other
MaxCalls == 3

\* the longest of the one-line inputs written in a few characters
MaxWord == 3

\* clicks on the Analyze button
MaxClicks == 4

(***************************************************************************)
(* Characters.                                                             *)
(***************************************************************************)
Upper == <<"A","B","C","D","E","F","G","H","I","J","K","L","M",
           "N","O","P","Q","R","S","T","U","V","W","X","Y","Z">>

Lower == <<"a","b","c","d","e","f","g","h","i","j","k","l","m",
           "n","o","p","q","r","s","t","u","v","w","x","y","z">>

Digits == {"0","1","2","3","4","5","6","7","8","9"}

Range(s) == {s[i] : i \in DOMAIN s}

IndexOf(s, c) == CHOOSE i \in DOMAIN s : s[i] = c

\* /\s/ on the ASCII characters: space, tab, line feed, carriage return
IsSpace(c) == c \in {" ", "\t", "\n", "\r"}

\* /[a-z]/
IsLowerLetter(c) == c \in Range(Lower)

\* /\w/ is [A-Za-z0-9_]
IsWordChar(c) == c \in Range(Lower) \cup Range(Upper) \cup Digits \cup {"_"}

\* /[aeiouy]/
IsVowel(c) == c \in {"a","e","i","o","u","y"}

\* String.prototype.toLowerCase, one character
LowerChar(c) == IF c \in Range(Upper) THEN Lower[IndexOf(Upper, c)] ELSE c

ToLowerCase(s) == [i \in DOMAIN s |-> LowerChar(s[i])]

\* 'A'.charCodeAt(0) is 65
CharCodeAt(c) == 64 + IndexOf(Upper, c)

\* String.fromCharCode on 65..90
FromCharCode(n) == Upper[n - 64]

\* s.replace(/[^a-z]/g, '')
KeepLetters(s) == SelectSeq(s, IsLowerLetter)

\* s.replace(/[^\w]/g, '')
KeepWordChars(s) == SelectSeq(s, IsWordChar)

\* s.slice(-len): the last len characters, the whole string when shorter
SliceLast(s, len) == SubSeq(s, IF Len(s) > len THEN Len(s) - len + 1 ELSE 1, Len(s))

\* s.slice(0, -1)
DropLast(s) == SubSeq(s, 1, Len(s) - 1)

TrimSpacesOnly(s) ==
    LET keep == {i \in DOMAIN s : s[i] # " "}
    IN  IF keep = {} THEN <<>>
        ELSE SubSeq(s, CHOOSE i \in keep : \A j \in keep : i <= j,
                       CHOOSE i \in keep : \A j \in keep : i >= j)

\* String.prototype.trim
Trim(s) ==
    LET keep == {i \in DOMAIN s : ~IsSpace(s[i])}
    IN  IF keep = {} THEN <<>>
        ELSE SubSeq(s, CHOOSE i \in keep : \A j \in keep : i <= j,
                       CHOOSE i \in keep : \A j \in keep : i >= j)

\* the k-th smallest member of a set of numbers
KthOf(S, k) == CHOOSE i \in S : Cardinality({j \in S : j < i}) = k - 1

\* s.split('\n'): the pieces between the newlines, one more than there are
\* newlines
SplitNewline(s) ==
    LET at == {i \in DOMAIN s : s[i] = "\n"}
        n == Cardinality(at)
    IN  [k \in 1..(n + 1) |->
            SubSeq(s, IF k = 1 THEN 1 ELSE KthOf(at, k - 1) + 1,
                      IF k = n + 1 THEN Len(s) ELSE KthOf(at, k) - 1)]

\* s.split(/\s+/): the pieces between the maximal runs of white space, one
\* more than there are runs (an empty piece before a leading run and after a
\* trailing one)
SplitSpaces(s) ==
    LET starts == {i \in DOMAIN s : IsSpace(s[i]) /\ (i = 1 \/ ~IsSpace(s[i - 1]))}
        ends == {i \in DOMAIN s : IsSpace(s[i]) /\ (i = Len(s) \/ ~IsSpace(s[i + 1]))}
        n == Cardinality(starts)
    IN  [k \in 1..(n + 1) |->
            SubSeq(s, IF k = 1 THEN 1 ELSE KthOf(ends, k - 1) + 1,
                      IF k = n + 1 THEN Len(s) ELSE KthOf(starts, k) - 1)]

\* array.filter(x => x.length > 0)
NonEmpty(ss) == SelectSeq(ss, LAMBDA x : Len(x) > 0)

\* the sum of a sequence of numbers (by halves)
RECURSIVE SumSeq(_)
SumSeq(ns) ==
    IF Len(ns) = 0 THEN 0
    ELSE IF Len(ns) = 1 THEN ns[1]
    ELSE LET h == Len(ns) \div 2
         IN  SumSeq(SubSeq(ns, 1, h)) + SumSeq(SubSeq(ns, h + 1, Len(ns)))

MinOf(S) == CHOOSE x \in S : \A y \in S : x <= y

MaxOf(S) == CHOOSE x \in S : \A y \in S : x >= y

(***************************************************************************)
(* countSyllables, countSyllablesInLine                                    *)
(***************************************************************************)
\* cleanWord.match(/[aeiouy]+/g): the number of maximal vowel runs
VowelGroups(w) ==
    Cardinality({i \in DOMAIN w : IsVowel(w[i]) /\ (i = 1 \/ ~IsVowel(w[i - 1]))})

CountSyllablesNoFloor(word) ==
    LET cleanWord == KeepLetters(ToLowerCase(word))
        groups == VowelGroups(cleanWord)
    IN  IF Len(word) = 0 \/ Len(cleanWord) = 0 THEN 0
        ELSE IF cleanWord[Len(cleanWord)] = "e" /\ groups > 1 THEN groups - 1
        ELSE groups

CountSyllablesNoSilentE(word) ==
    IF Len(word) = 0 THEN 0
    ELSE LET cleanWord == KeepLetters(ToLowerCase(word))
             groups == VowelGroups(cleanWord)
         IN  IF Len(cleanWord) = 0 THEN 0
             ELSE IF groups > 1 THEN groups ELSE 1

\* lines 14-36
CountSyllables(word) ==
    IF Len(word) = 0 THEN 0
    ELSE LET cleanWord == KeepLetters(ToLowerCase(word))
             groups == VowelGroups(cleanWord)
             silentE == IF cleanWord[Len(cleanWord)] = "e" /\ groups > 1
                        THEN groups - 1 ELSE groups
             forced == IF silentE = 0 /\ Len(cleanWord) > 0 THEN 1 ELSE silentE
         IN  IF Len(cleanWord) = 0 THEN 0
             ELSE IF forced > 1 THEN forced ELSE 1

CountSyllablesInLine(line) ==
    LET words == NonEmpty(SplitSpaces(Trim(line)))
    IN  SumSeq([i \in DOMAIN words |-> CountSyllables(words[i])])

(***************************************************************************)
(* getLastWord, wordsRhyme                                                 *)
(***************************************************************************)
GetLastWord(line) ==
    LET words == SplitSpaces(Trim(line))
        lastWord == words[Len(words)]
    IN  KeepWordChars(ToLowerCase(lastWord))

WordsRhymeOnLongSuffix(word1, word2) ==
    IF word1 = <<>> \/ word2 = <<>> \/ word1 = word2 THEN FALSE
    ELSE \E len \in 3..4 :
            /\ SliceLast(word1, len) = SliceLast(word2, len)
            /\ Len(SliceLast(word1, len)) >= 2

\* lines 52-64
WordsRhyme(word1, word2) ==
    IF word1 = <<>> \/ word2 = <<>> \/ word1 = word2 THEN FALSE
    ELSE \E len \in 2..4 :
            /\ SliceLast(word1, len) = SliceLast(word2, len)
            /\ Len(SliceLast(word1, len)) >= 2

(***************************************************************************)
(* The rhyme pass: one iteration of lines.forEach                          *)
(***************************************************************************)
Dash == <<"-">>

\* a property that is not there reads as undefined, which is falsy
Undefined == <<>>

Truthy(v) == v # <<>>

\* usedLabels is a plain object literal {}: besides its own properties it
\* inherits those of Object.prototype.  Ending words are lower-case \w
\* strings, and the inherited names of that shape are "constructor" (the
\* function Object) and "__proto__" (Object.prototype itself).  A label is
\* only ever copied, tested for truthiness and converted to a string, so
\* each inherited value is held as its string conversion.
ObjectPrototype ==
    (<<"c","o","n","s","t","r","u","c","t","o","r">>
        :> <<"function Object() { [native code] }">>)
    @@ (<<"_","_","p","r","o","t","o","_","_">> :> <<"[object Object]">>)

\* obj[key]
GetProperty(obj, key) ==
    IF key \in DOMAIN obj THEN obj[key]
    ELSE IF key \in DOMAIN ObjectPrototype THEN ObjectPrototype[key]
    ELSE Undefined

SetPropertyDropped(obj, key, value) == obj

\* obj[key] = value; the __proto__ setter ignores a string and creates no
\* own property
SetProperty(obj, key, value) ==
    IF key = <<"_","_","p","r","o","t","o","_","_">> THEN obj
    ELSE [k \in DOMAIN obj \cup {key} |-> IF k = key THEN value ELSE obj[k]]

NextLabelStuck(label) == label

NextLabelCarrying(label) ==
    IF label = <<"Z">> THEN <<"A", "A">>
    ELSE IF Len(label) = 1 THEN <<FromCharCode(CharCodeAt(label[1]) + 1)>>
    ELSE IF label[2] = "Z" THEN <<FromCharCode(CharCodeAt(label[1]) + 1), "A">>
    ELSE <<label[1], FromCharCode(CharCodeAt(label[2]) + 1)>>

\* lines 156-168: the label after rhymeLabel
NextLabel(label) ==
    IF label = <<"Z">> THEN <<"A", "A">>
    ELSE IF Len(label) = 1 THEN <<FromCharCode(CharCodeAt(label[1]) + 1)>>
    ELSE LET lastChar == label[Len(label)]
         IN  IF lastChar = "Z" THEN DropLast(label) \o <<"A">> \o <<"A">>
             ELSE DropLast(label) \o <<FromCharCode(CharCodeAt(lastChar) + 1)>>

\* the state the pass starts from (lines 124-126)
RhymeStartSharedCounter == [rhymeScheme |-> <<>>, rhymeLabel |-> rhymeLabel, usedLabels |-> <<>>]

\* lines 124-126: rhymeScheme = [], rhymeLabel = 'A', usedLabels = {}
RhymeStart == [rhymeScheme |-> <<>>, rhymeLabel |-> <<"A">>, usedLabels |-> <<>>]

SkippedLineTakesLabel(st) ==
    [st EXCEPT !.rhymeScheme = Append(@, Dash), !.rhymeLabel = NextLabel(@)]

\* lines 130-133: no ending word
SkippedLine(st) == [st EXCEPT !.rhymeScheme = Append(@, Dash)]

LabelOfPreviousLine(scheme, i) == scheme[Len(scheme)]

\* line 140: const prevLabel = rhymeScheme[i]
LabelOfMatch(scheme, i) == scheme[i]

NoEndingWordOrPartner(words, k) ==
    \/ words[k] = <<>>
    \/ \A i \in DOMAIN words \ {k} :
           words[i] # words[k] /\ ~WordsRhyme(words[k], words[i])

\* line 130: if (!lastWord), the ending word of the k-th line is empty
NoEndingWord(words, k) == words[k] = <<>>

\* one iteration of the forEach at lines 128-171, for the k-th line (1-based)
RhymeStep(words, k, st) ==
    LET lastWord == words[k]
        rhyming == {i \in 1..(k - 1) : words[i] # <<>> /\ WordsRhyme(lastWord, words[i])}
    IN  IF NoEndingWord(words, k) THEN SkippedLine(st)
        ELSE IF rhyming # {}
        THEN LET prevLabel == LabelOfMatch(st.rhymeScheme, MinOf(rhyming))
             IN  [st EXCEPT !.rhymeScheme = Append(@, prevLabel),
                            !.usedLabels = SetProperty(@, lastWord, prevLabel)]
        ELSE IF Truthy(GetProperty(st.usedLabels, lastWord))
        THEN [st EXCEPT !.rhymeScheme = Append(@, GetProperty(st.usedLabels, lastWord))]
        ELSE [rhymeScheme |-> Append(st.rhymeScheme, st.rhymeLabel),
              usedLabels |-> SetProperty(st.usedLabels, lastWord, st.rhymeLabel),
              rhymeLabel |-> NextLabel(st.rhymeLabel)]

\* lines.forEach at line 128, resumed from st: the lines are taken in order
\* until the first n have their labels
RECURSIVE RhymeFrom(_, _, _)
RhymeFrom(words, n, st) ==
    IF Len(st.rhymeScheme) >= n THEN st
    ELSE RhymeFrom(words, n, RhymeStep(words, Len(st.rhymeScheme) + 1, st))

\* the whole pass over the first n ending words
RhymePass(words, n) == RhymeFrom(words, n, RhymeStart)

(***************************************************************************)
(* The reports.  A report is held by its fields, in the order the template *)
(* strings print them, instead of as one string.                           *)
(***************************************************************************)
\* 'No lyrics provided.' (lines 88-89 and 97-98)
Sentinel == [kind |-> "text", text |-> "No lyrics provided."]

SentinelResult == [kind |-> "pair", syllableAnalysis |-> Sentinel, rhymeAnalysis |-> Sentinel]

NoResult == [kind |-> "none"]

\* lines.map((line, index) => ...) at lines 103-106; index + 1 is the position
SyllableData(ls) ==
    [i \in DOMAIN ls |->
        [line |-> i, text |-> ls[i], syllables |-> CountSyllablesInLine(ls[i])]]

TotalSyllablesSkippingFirst(data) ==
    SumSeq([i \in DOMAIN Tail(data) |-> Tail(data)[i].syllables])

\* syllableData.reduce((sum, data) => sum + data.syllables, 0)
TotalSyllables(data) == SumSeq([i \in DOMAIN data |-> data[i].syllables])

Pow2(n) == 2^n

\* The double nearest to m/20 (m odd, not a multiple of 5) lies above m/20
\* exactly when the remainder of m * 2^e by 20 exceeds 10, where 2^e scales
\* m/20 into [2^52, 2^53); 2^e mod 20 has period 4 in e.
DoubleIsAbove(m) ==
    LET up == {j \in 0..26 : 20 * Pow2(j) <= m}
        down == {k \in 1..6 : m * Pow2(k) >= 20}
        e4 == IF up # {} THEN (4 - (MaxOf(up) % 4)) % 4 ELSE MinOf(down) % 4
        p == CASE e4 = 0 -> 16 [] e4 = 1 -> 12 [] e4 = 2 -> 4 [] OTHER -> 8
    IN  ((m % 20) * p) % 20 > 10

ToFixedTruncated(total, n) == (10 * total) \div n

\* (total / n).toFixed(1), in tenths: the decimal nearest to the double
\* quotient, the larger one when the double lies exactly half way
ToFixed1(total, n) ==
    LET fl == (10 * total) \div n
        rem == (10 * total) % n
        m == 2 * fl + 1
    IN  IF 2 * rem < n THEN fl
        ELSE IF 2 * rem > n THEN fl + 1
        ELSE IF m % 5 = 0 THEN fl + 1
        ELSE IF DoubleIsAbove(m) THEN fl + 1 ELSE fl

MaxDisplay == 50

\* d.text.substring(0, 50) followed by '...' when d.text is longer
DisplayText(text) ==
    IF Len(text) > MaxDisplay THEN SubSeq(text, 1, MaxDisplay) \o <<".", ".", ".">>
    ELSE text

\* lines 108-120
SyllableAnalysis(ls, data) ==
    [kind |-> "syllables",
     totalLines |-> Len(ls),
     totalSyllables |-> TotalSyllables(data),
     avgSyllables |-> ToFixed1(TotalSyllables(data), Len(ls)),
     minSyllables |-> MinOf({data[i].syllables : i \in DOMAIN data}),
     maxSyllables |-> MaxOf({data[i].syllables : i \in DOMAIN data}),
     breakdown |-> [i \in DOMAIN data |->
                      [line |-> data[i].line, syllables |-> data[i].syllables,
                       plural |-> data[i].syllables # 1,
                       text |-> DisplayText(data[i].text)]]]

\* the keys of rhymeMap in insertion order: the labels other than '-' in the
\* order of their first appearance (lines 176-182)
LabelsInOrder(scheme) ==
    LET first == {i \in DOMAIN scheme :
                     scheme[i] # Dash /\ \A j \in 1..(i - 1) : scheme[j] # scheme[i]}
    IN  [k \in 1..Cardinality(first) |-> scheme[KthOf(first, k)]]

\* rhymeMap[label]: the 1-based numbers of the lines that carry the label
LinesOf(scheme, label) ==
    LET at == {i \in DOMAIN scheme : scheme[i] = label}
    IN  [k \in 1..Cardinality(at) |-> KthOf(at, k)]

Unsorted(groups) == groups

\* .sort((a, b) => b[1].length - a[1].length): stable, larger groups first
\* a group comes after the larger groups and after the groups of its size
\* that precede it
SortBySize(groups) ==
    LET ahead(i) == {j \in DOMAIN groups :
                        \/ Len(groups[j].lineNumbers) > Len(groups[i].lineNumbers)
                        \/ /\ Len(groups[j].lineNumbers) = Len(groups[i].lineNumbers)
                           /\ j < i}
    IN  [k \in DOMAIN groups |->
            groups[CHOOSE i \in DOMAIN groups : Cardinality(ahead(i)) = k - 1]]

\* lines 184-186
RhymeGroupsList(scheme) ==
    LET labels == LabelsInOrder(scheme)
        entries == [i \in DOMAIN labels |->
                       [label |-> labels[i], lineNumbers |-> LinesOf(scheme, labels[i])]]
    IN  SortBySize(SelectSeq(entries, LAMBDA g : Len(g.lineNumbers) > 1))

\* lines 173-202
RhymeAnalysis(ls, words, scheme) ==
    [kind |-> "rhymes",
     scheme |-> scheme,
     patternsFound |-> RhymeGroupsList(scheme) # <<>>,
     patterns |-> [i \in DOMAIN RhymeGroupsList(scheme) |->
                     [label |-> RhymeGroupsList(scheme)[i].label,
                      lineNumbers |-> RhymeGroupsList(scheme)[i].lineNumbers,
                      count |-> Len(RhymeGroupsList(scheme)[i].lineNumbers)]],
     noClearPatterns |-> RhymeGroupsList(scheme) = <<>>,
     mapping |-> [i \in DOMAIN ls |->
                    [line |-> i, label |-> scheme[i], text |-> ls[i],
                     ending |-> words[i]]]]

(***************************************************************************)
(* The arguments analyzeLyrics is called with.                             *)
(***************************************************************************)
\* a string argument; the empty string is the one falsy string
Str(chars) == [typeof |-> "string", falsy |-> (chars = <<>>), chars |-> chars]

\* undefined, null, 42 and {}
NonStrings ==
    {[typeof |-> "undefined", falsy |-> TRUE, chars |-> <<>>],
     [typeof |-> "object", falsy |-> TRUE, chars |-> <<>>],
     [typeof |-> "number", falsy |-> FALSE, chars |-> <<>>],
     [typeof |-> "object", falsy |-> FALSE, chars |-> <<>>]}

\* array.join('\n')
RECURSIVE JoinLines(_)
JoinLines(ls) ==
    IF Len(ls) = 0 THEN <<>>
    ELSE IF Len(ls) = 1 THEN ls[1]
    ELSE ls[1] \o <<"\n">> \o JoinLines(Tail(ls))

Constructor == <<"c","o","n","s","t","r","u","c","t","o","r">>

RawLines ==
    {<<>>,
     <<" ", "\t">>,
     <<"c","a","t">>,
     <<" ","A"," ","h","a","t","!"," ">>,
     <<"!","!","!">>,
     Constructor,
     <<"4","2"," ","x">>}

ShortInputs ==
    {Str(JoinLines(ls)) : ls \in UNION {[1..n -> RawLines] : n \in 1..MaxLines}}

\* four lines: blank lines between lines, a rhyme and a repeated word after
\* another word, a line without an ending word
FourLines ==
    {Str(JoinLines(ls)) :
        ls \in {<<<<" ", "\t">>, <<"c","a","t">>, <<>>, <<"c","a","t">>>>,
                <<<<"c","a","t">>, <<"4","2"," ","x">>, <<"!","!","!">>,
                  <<" ","A"," ","h","a","t","!"," ">>>>,
                <<<<"c","a","t">>, <<"4","2"," ","x">>, Constructor, <<"c","a","t">>>>,
                <<<<"c","a","t">>, <<"!","!","!">>, <<"4","2"," ","x">>, <<"c","a","t">>>>}}

CatHatBat == Str(<<"c","a","t","\n","h","a","t","\n","b","a","t">>)

HelloThere ==
    Str(<<"H","e","l","l","o"," ","t","h","e","r","e","\n",
          "N","o"," ","o","n","e","'","s"," ","n","e","a","r","\n",
          "G","o","o","d","b","y","e"," ","m","y"," ","d","e","a","r">>)

\* a pair of lines first, and then a group of three
XCatHatXBat ==
    Str(<<"x","\n","c","a","t","\n","h","a","t","\n","x","\n","b","a","t">>)

\* 20 lines of 29 syllables, the quotient 1.45 not being a double: 9 lines
\* "baba" and 11 lines "ba", a newline after each but the last
TwentyLines ==
    Str([i \in 1..77 |->
            IF i <= 45
            THEN (IF i % 5 = 0 THEN "\n" ELSE IF i % 5 \in {1, 3} THEN "b" ELSE "a")
            ELSE (IF i % 3 = 0 THEN "\n" ELSE IF i % 3 = 1 THEN "b" ELSE "a")])

\* one line of up to MaxWord characters: vowels, a consonant, a capital,
\* an apostrophe and blanks
WordInputs ==
    {Str(w) : w \in UNION {[1..n -> {"a", "e", "t", "E", "'", " "}] : n \in 1..MaxWord}}

\* words of up to MaxWord letters a and t
SmallWords == UNION {[1..n -> {"a", "t"}] : n \in 1..MaxWord}

\* two lines of one small word each
PairInputs == {Str(w1 \o <<"\n">> \o w2) : w1, w2 \in SmallWords}

\* two words that end in the same four letters
FlightSlight ==
    Str(<<"f","l","i","g","h","t","\n","s","l","i","g","h","t">>)

\* two-letter words, no two of which end alike
LongWord(k) == <<Lower[2 + (k \div 10)], Lower[1 + (k % 10)]>>

LongLines(n) == [k \in 1..n |-> LongWord(k - 1)]

\* n lines of two characters each, joined by newlines
JoinPairs(ls) ==
    [p \in 1..(3 * Len(ls) - 1) |->
        IF p % 3 = 0 THEN "\n" ELSE ls[(p + 2) \div 3][p % 3]]

\* the same with lines without an ending word and repeats of the first word
LongLinesMixed(n) ==
    [k \in 1..n |-> IF k % 7 = 3 THEN <<"!","!">>
                    ELSE IF k % 7 = 5 THEN LongWord(0)
                    ELSE LongWord(k - 1)]

LongInputs ==
    {Str(JoinPairs(LongLines(MaxGroups))), Str(JoinPairs(LongLinesMixed(MaxMixed)))}

Inputs ==
    NonStrings \cup ShortInputs \cup FourLines \cup WordInputs \cup PairInputs
        \cup LongInputs
        \cup {CatHatBat, HelloThere, XCatHatXBat, TwentyLines, FlightSlight}

(***************************************************************************)
(* analyzeLyrics                                                           *)
(***************************************************************************)
\* line 83
InvalidInput == "Invalid lyrics input: lyrics must be a string"

RethrowUnwrapped(message) == <<message>>

\* lines 208-212: throw new Error(`Analysis failed: ${errorMessage}`)
WrapError(message) == <<"Analysis failed: ", message>>

KeepBlankLines(chars) ==
    LET split == SplitNewline(chars)
    IN  [i \in DOMAIN split |-> Trim(split[i])]

\* line 93: lyrics.split('\n').map(line => line.trim()).filter(line => line.length > 0)
FilterLines(chars) ==
    LET split == SplitNewline(chars)
    IN  NonEmpty([i \in DOMAIN split |-> Trim(split[i])])

\* useState(null) at part_001 line 43, and no toast
Null == [kind |-> "null"]

NoToast == [kind |-> "none"]

\* part_001 lines 43-46: the component as it is mounted, before any click
Mounted ==
    /\ analysis = Null
    /\ toast = NoToast
    /\ activeTab = "remixes"
    /\ uiPc = "idle"
    /\ submitted = <<>>
    /\ clicks = 0
    /\ lastClick = "none"
    /\ lastSuccessful = Null
    /\ remix = Null
    /\ editedRemix = Null
    /\ remixed = Null
    /\ savedLyrics = <<>>
    /\ now = 0
    /\ removal = Null

Init ==
    /\ lyrics \in Inputs
    /\ version = "local"
    /\ Mounted
    /\ formLyrics = <<>>
    /\ pc = "start"
    /\ lines = <<>>
    /\ syllableData = <<>>
    /\ lastWords = <<>>
    /\ index = 0
    /\ rhymeScheme = <<>>
    /\ rhymeLabel = <<"A">>
    /\ usedLabels = <<>>
    /\ outcome = "running"
    /\ result = NoResult
    /\ error = <<>>
    /\ calls = 1
    /\ finished = <<>>

\* lines 81-84 and 208-212: the argument is refused, the error is caught and
\* thrown again, wrapped
Reject ==
    /\ pc = "start"
    /\ lyrics.falsy \/ lyrics.typeof # "string"
    /\ pc' = "done"
    /\ outcome' = "threw"
    /\ error' = WrapError(InvalidInput)
    /\ UNCHANGED <<lyrics, lines, syllableData, lastWords, index,
                   rhymeScheme, rhymeLabel, usedLabels, result>>
    /\ UNCHANGED <<callVars, uiVars>>

\* lines 86-91
ReturnSentinel ==
    /\ pc = "start"
    /\ ~(lyrics.falsy \/ lyrics.typeof # "string")
    /\ Len(Trim(lyrics.chars)) = 0
    /\ pc' = "done"
    /\ outcome' = "returned"
    /\ result' = SentinelResult
    /\ UNCHANGED <<lyrics, lines, syllableData, lastWords, index,
                   rhymeScheme, rhymeLabel, usedLabels, error>>
    /\ UNCHANGED <<callVars, uiVars>>

\* lines 93-126: the lines, the syllable records, the ending words and the
\* start of the rhyme pass
SyllablePass ==
    /\ pc = "start"
    /\ ~(lyrics.falsy \/ lyrics.typeof # "string")
    /\ Len(Trim(lyrics.chars)) # 0
    /\ lines' = FilterLines(lyrics.chars)
    /\ IF Len(lines') = 0
       THEN /\ pc' = "done"
            /\ outcome' = "returned"
            /\ result' = SentinelResult
            /\ UNCHANGED <<syllableData, lastWords>>
       ELSE /\ pc' = "rhyme"
            /\ syllableData' = SyllableData(lines')
            /\ lastWords' = [i \in DOMAIN lines' |-> GetLastWord(lines'[i])]
            /\ UNCHANGED <<outcome, result>>
    /\ index' = 0
    /\ rhymeScheme' = RhymeStart.rhymeScheme
    /\ rhymeLabel' = RhymeStart.rhymeLabel
    /\ usedLabels' = RhymeStart.usedLabels
    /\ UNCHANGED <<lyrics, error>>
    /\ UNCHANGED <<callVars, uiVars>>

\* lines 128-171: one iteration of lines.forEach
RhymeLine ==
    /\ pc = "rhyme"
    /\ index < Len(lines)
    /\ LET st == RhymeStep(lastWords, index + 1,
                           [rhymeScheme |-> rhymeScheme, rhymeLabel |-> rhymeLabel,
                            usedLabels |-> usedLabels])
       IN  /\ rhymeScheme' = st.rhymeScheme
           /\ rhymeLabel' = st.rhymeLabel
           /\ usedLabels' = st.usedLabels
    /\ index' = index + 1
    /\ UNCHANGED <<lyrics, pc, lines, syllableData, lastWords, outcome, result, error>>
    /\ UNCHANGED <<callVars, uiVars>>

\* lines 108-120 and 173-207: the two reports are built and returned
Report ==
    /\ pc = "rhyme"
    /\ index = Len(lines)
    /\ pc' = "done"
    /\ outcome' = "returned"
    /\ result' = [kind |-> "pair",
                  syllableAnalysis |-> SyllableAnalysis(lines, syllableData),
                  rhymeAnalysis |-> RhymeAnalysis(lines, lastWords, rhymeScheme)]
    /\ UNCHANGED <<lyrics, lines, syllableData, lastWords, index,
                   rhymeScheme, rhymeLabel, usedLabels, error>>
    /\ UNCHANGED <<callVars, uiVars>>

Next == Reject \/ ReturnSentinel \/ SyllablePass \/ RhymeLine \/ Report

Spec == Init /\ [][Next]_vars

(***************************************************************************)
(* Calls of analyzeLyrics one after the other.                             *)
(***************************************************************************)
CallInputs ==
    {[typeof |-> "undefined", falsy |-> TRUE, chars |-> <<>>],
     Str(<<" ", "\t">>), Str(Constructor),
     CatHatBat, Str(JoinPairs(LongLinesMixed(MaxMixed)))}

\* line 80: the function is called again once the call before has finished.
\* The locals of the finished call are out of scope: what they held is
\* left where it was, and the new call never reads it.
Call ==
    /\ pc = "done"
    /\ calls < MaxCalls
    /\ lyrics' \in CallInputs
    /\ pc' = "start"
    /\ outcome' = "running"
    /\ result' = NoResult
    /\ error' = <<>>
    /\ calls' = calls + 1
    /\ finished' = Append(finished, [lyrics |-> lyrics, outcome |-> outcome,
                                     result |-> result, error |-> error])
    /\ UNCHANGED <<lines, syllableData, lastWords, index,
                   rhymeScheme, rhymeLabel, usedLabels>>
    /\ UNCHANGED uiVars

InitCalls == Init /\ lyrics \in CallInputs

NextCalls == Next \/ Call

SpecCalls == InitCalls /\ [][NextCalls]_vars

(***************************************************************************)
(* LyricSliceClient: the Analyze button (part_001).                        *)
(***************************************************************************)
\* analyzeLyrics as its callers see it: what a call on arg returns or throws
AnalyzeLyrics(arg) ==
    IF arg.falsy \/ arg.typeof # "string"
    THEN [outcome |-> "threw", result |-> NoResult, error |-> WrapError(InvalidInput)]
    ELSE IF Len(Trim(arg.chars)) = 0 \/ Len(FilterLines(arg.chars)) = 0
    THEN [outcome |-> "returned", result |-> SentinelResult, error |-> <<>>]
    ELSE LET ls == FilterLines(arg.chars)
             words == [i \in DOMAIN ls |-> GetLastWord(ls[i])]
         IN  [outcome |-> "returned",
              result |-> [kind |-> "pair",
                          syllableAnalysis |-> SyllableAnalysis(ls, SyllableData(ls)),
                          rhymeAnalysis |->
                              RhymeAnalysis(ls, words,
                                            RhymePass(words, Len(ls)).rhymeScheme)],
              error |-> <<>>]

\* formSchema: z.string().min(20, ...).max(4000, ...)
MinChars == 20

MaxChars == 4000

Valid(chars) == Len(chars) >= MinChars /\ Len(chars) <= MaxChars

TwentyBlanks == [i \in 1..20 |-> " "]

\* what the text area may hold when Analyze is clicked
Typed ==
    {<<>>, CatHatBat.chars, HelloThere.chars, JoinLines(<<Constructor, Constructor>>),
     TwentyBlanks}

\* form.handleSubmit(onAnalyze) calls onAnalyze with valid values only
FormValues == {chars \in Typed : Valid(chars)}

\* toast({ variant: 'destructive', title: 'Analysis Failed', description })
AnalysisFailed(description) ==
    [kind |-> "toast", variant |-> "destructive", title |-> "Analysis Failed",
     description |-> description]

\* what the flow behind the server action may do: give both texts, give an
\* empty text, or throw
FlowOutcomes ==
    {[kind |-> "output", syllableAnalysis |-> "syllables by the model",
      rhymeAnalysis |-> "rhymes by the model"],
     [kind |-> "output", syllableAnalysis |-> "", rhymeAnalysis |-> "rhymes by the model"],
     [kind |-> "thrown", message |-> "the flow failed"]}

\* actions.ts lines 10-51: handleAnalyze
HandleAnalyze(chars, flow) ==
    IF Len(chars) = 0 \/ Len(Trim(chars)) = 0
    THEN [kind |-> "error", error |-> <<"Please provide lyrics to analyze.">>]
    ELSE IF flow.kind = "thrown"
    THEN [kind |-> "error", error |-> <<"Failed to analyze lyrics: ", flow.message>>]
    ELSE IF flow.syllableAnalysis = "" \/ flow.rhymeAnalysis = ""
    THEN [kind |-> "error",
          error |-> <<"Failed to analyze lyrics: ",
                      "Analysis result missing required fields">>]
    ELSE flow

\* setAnalysis(null) where the analysis failed: part_001 lines 66 and 389
ClearedAnalysis(previous) == Null

\* part_001 lines 55-69: onAnalyze of the client-side version, with the
\* call of analyzeLyrics inside it
OnAnalyzeLocal ==
    /\ version = "local"
    /\ clicks < MaxClicks
    /\ \E values \in FormValues :
           LET r == AnalyzeLyrics(Str(values))
           IN  IF r.outcome = "returned"
               THEN /\ analysis' = r.result
                    /\ lastSuccessful' = r.result
                    /\ lastClick' = "succeeded"
                    /\ toast' = toast
               ELSE /\ analysis' = ClearedAnalysis(analysis)
                    /\ lastSuccessful' = lastSuccessful
                    /\ lastClick' = "failed"
                    /\ toast' = AnalysisFailed(r.error)
    /\ activeTab' = "analysis"
    /\ clicks' = clicks + 1
    /\ UNCHANGED <<version, uiPc, submitted, callVars, clientVars>>
    /\ UNCHANGED <<lyrics, pc, lines, syllableData, lastWords, index,
                   rhymeScheme, rhymeLabel, usedLabels, outcome, result, error>>

\* part_001 lines 378-384: onAnalyze of the server version, up to the await;
\* the button is disabled while the request is in flight
OnAnalyzeServer ==
    /\ version = "server"
    /\ uiPc = "idle"
    /\ clicks < MaxClicks
    /\ submitted' \in FormValues
    /\ analysis' = Null
    /\ activeTab' = "analysis"
    /\ uiPc' = "analyzing"
    /\ lastClick' = "pending"
    /\ clicks' = clicks + 1
    /\ UNCHANGED <<version, toast, lastSuccessful, callVars, clientVars>>
    /\ UNCHANGED <<lyrics, pc, lines, syllableData, lastWords, index,
                   rhymeScheme, rhymeLabel, usedLabels, outcome, result, error>>

\* part_001 lines 384-392: handleAnalyze has answered
ServerSettled ==
    /\ version = "server"
    /\ uiPc = "analyzing"
    /\ \E flow \in FlowOutcomes :
           LET r == HandleAnalyze(submitted, flow)
           IN  IF r.kind = "error"
               THEN /\ toast' = AnalysisFailed(r.error)
                    /\ analysis' = ClearedAnalysis(analysis)
                    /\ lastSuccessful' = lastSuccessful
                    /\ lastClick' = "failed"
               ELSE /\ analysis' = r
                    /\ lastSuccessful' = r
                    /\ lastClick' = "succeeded"
                    /\ toast' = toast
    /\ uiPc' = "idle"
    /\ UNCHANGED <<version, activeTab, submitted, clicks, callVars, clientVars>>
    /\ UNCHANGED <<lyrics, pc, lines, syllableData, lastWords, index,
                   rhymeScheme, rhymeLabel, usedLabels, outcome, result, error>>

\* either version of the component, mounted; analyzeLyrics is called inside
\* OnAnalyzeLocal, and the variables of a call on its own stay put
InitUI ==
    /\ version \in {"local", "server"}
    /\ Mounted
    /\ formLyrics = <<>>
    /\ lyrics = Str(<<>>)
    /\ pc = "start"
    /\ lines = <<>>
    /\ syllableData = <<>>
    /\ lastWords = <<>>
    /\ index = 0
    /\ rhymeScheme = <<>>
    /\ rhymeLabel = <<"A">>
    /\ usedLabels = <<>>
    /\ outcome = "running"
    /\ result = NoResult
    /\ error = <<>>
    /\ calls = 1
    /\ finished = <<>>

NextUI == OnAnalyzeLocal \/ OnAnalyzeServer \/ ServerSettled

SpecUI == InitUI /\ [][NextUI]_vars

(***************************************************************************)
(* LyricSliceClient: the lyrics field and the Remix button of the          *)
(* client-side version (part_001 lines 71-92).                             *)
(***************************************************************************)
\* three non-blank lines, two of them equal and one indented, with an empty
\* line and a blank line among them
LaOhLa ==
    JoinLines(<<SubSeq(Lower, 1, 8), <<>>, <<" ", " ">> \o SubSeq(Lower, 9, 14),
                SubSeq(Lower, 1, 8), <<" ", "\t">>>>)

\* five different lines of five letters
FiveLines == JoinLines([k \in 1..5 |-> SubSeq(Lower, 5 * k - 4, 5 * k)])

\* two lines that end in a carriage return, and an empty piece after them
TwoCrLines ==
    JoinLines(<<SubSeq(Lower, 1, 9) \o <<"\r">>, SubSeq(Lower, 10, 18) \o <<"\r">>, <<>>>>)

\* what the user may type into the lyrics field
RemixTexts ==
    {<<>>, CatHatBat.chars, TwentyBlanks, SubSeq(Lower, 1, 20), LaOhLa, FiveLines,
     TwoCrLines}

\* line 76: values.lyrics.split('\n').filter(line => line.trim() !== '')
RemixLinesOf(chars) == SelectSeq(SplitNewline(chars), LAMBDA line : Trim(line) # <<>>)

\* shuffledLines[j] = shuffledLines[k] alone: the element at j is lost
SwapOverwriting(s, j, k) == [s EXCEPT ![j] = s[k]]

\* line 86: [shuffledLines[j], shuffledLines[k]] = [shuffledLines[k], shuffledLines[j]]
Swap(s, j, k) == [s EXCEPT ![j] = s[k], ![k] = s[j]]

\* line 85: Math.floor(Math.random() * (j + 1)) is any index from the first
\* to j, for each j of the loop; positions are counted from 1 here
Randoms(n) == {ks \in [2..n -> 1..n] : \A j \in 2..n : ks[j] <= j}

\* lines 84-87: the loop from the last position down to the second
RECURSIVE ShuffleFrom(_, _, _)
ShuffleFrom(s, j, ks) ==
    IF j < 2 THEN s ELSE ShuffleFrom(Swap(s, j, ks[j]), j - 1, ks)

Shuffle(ls, ks) == ShuffleFrom(ls, Len(ls), ks)

\* the user types into the lyrics field
TypeLyrics ==
    /\ formLyrics' \in RemixTexts
    /\ UNCHANGED <<remix, editedRemix, remixed, savedLyrics, now, removal>>
    /\ UNCHANGED <<version, analysis, toast, activeTab, uiPc, submitted,
                   clicks, lastClick, lastSuccessful, callVars>>
    /\ UNCHANGED <<lyrics, pc, lines, syllableData, lastWords, index,
                   rhymeScheme, rhymeLabel, usedLabels, outcome, result, error>>

\* lines 71-92: onRemix, called by form.handleSubmit with valid values; the
\* button is disabled while the field is empty
OnRemix ==
    /\ version = "local"
    /\ formLyrics # <<>>
    /\ Valid(formLyrics)
    /\ LET ls == RemixLinesOf(formLyrics)
       IN  IF Len(ls) = 0
           THEN remix' = Null
           ELSE \E ks \in Randoms(Len(ls)) : remix' = Str(JoinLines(Shuffle(ls, ks)))
    /\ remixed' = Str(formLyrics)
    /\ activeTab' = "remixes"
    /\ editedRemix' = Null
    /\ UNCHANGED <<formLyrics, savedLyrics, now, removal>>
    /\ UNCHANGED <<version, analysis, toast, uiPc, submitted,
                   clicks, lastClick, lastSuccessful, callVars>>
    /\ UNCHANGED <<lyrics, pc, lines, syllableData, lastWords, index,
                   rhymeScheme, rhymeLabel, usedLabels, outcome, result, error>>

\* the client-side version, mounted with an empty lyrics field
InitRemix ==
    /\ version = "local"
    /\ Mounted
    /\ formLyrics = <<>>
    /\ lyrics = Str(<<>>)
    /\ pc = "start"
    /\ lines = <<>>
    /\ syllableData = <<>>
    /\ lastWords = <<>>
    /\ index = 0
    /\ rhymeScheme = <<>>
    /\ rhymeLabel = <<"A">>
    /\ usedLabels = <<>>
    /\ outcome = "running"
    /\ result = NoResult
    /\ error = <<>>
    /\ calls = 1
    /\ finished = <<>>

NextRemix == TypeLyrics \/ OnRemix

SpecRemix == InitRemix /\ [][NextRemix]_vars

(***************************************************************************)
(* LyricSliceClient: the saved list (part_001 lines 99-108 and 284-311).   *)
(***************************************************************************)
\* entries the saved list may hold
MaxSaved == 2

\* milliseconds the clock advances while the component is watched
MaxClock == 2

DigitChars == <<"0","1","2","3","4","5","6","7","8","9">>

\* Number.prototype.toString of a whole number that is not negative
RECURSIVE NumberToString(_)
NumberToString(n) ==
    IF n < 10 THEN <<DigitChars[n + 1]>>
    ELSE NumberToString(n \div 10) \o <<DigitChars[(n % 10) + 1]>>

\* what the user may make of the remix in its text area
Edits == {Str(<<"l","a">>)}

\* the text of the lyrics field for which the saved list is explored
SavedTexts == {TwoCrLines}

RemixSaved ==
    [kind |-> "toast", title |-> "Remix saved!",
     description |-> "You can find it in the \"Saved\" section below."]

SavedLyricRemoved == [kind |-> "toast", title |-> "Saved lyric removed."]

\* Date.now() is read off a clock of millisecond steps, which advances on
\* its own between and during the clicks
ClockTick ==
    /\ now < MaxClock
    /\ now' = now + 1
    /\ UNCHANGED <<formLyrics, remix, editedRemix, remixed, savedLyrics, removal>>
    /\ UNCHANGED <<version, analysis, toast, activeTab, uiPc, submitted,
                   clicks, lastClick, lastSuccessful, callVars>>
    /\ UNCHANGED <<lyrics, pc, lines, syllableData, lastWords, index,
                   rhymeScheme, rhymeLabel, usedLabels, outcome, result, error>>

\* line 220: onChange={(e) => setEditedRemix(e.target.value)}, in the text
\* area shown while there is a remix
EditRemix ==
    /\ remix # Null
    /\ editedRemix' \in Edits
    /\ UNCHANGED <<formLyrics, remix, remixed, savedLyrics, now, removal>>
    /\ UNCHANGED <<version, analysis, toast, activeTab, uiPc, submitted,
                   clicks, lastClick, lastSuccessful, callVars>>
    /\ UNCHANGED <<lyrics, pc, lines, syllableData, lastWords, index,
                   rhymeScheme, rhymeLabel, usedLabels, outcome, result, error>>

\* lines 99-103: handleSave, from the Save button of the remix (line 230)
HandleSave ==
    /\ remix # Null
    /\ Len(savedLyrics) < MaxSaved
    /\ savedLyrics' =
           Append(savedLyrics,
                  [id |-> NumberToString(now),
                   text |-> IF editedRemix # Null THEN editedRemix ELSE remix])
    /\ toast' = RemixSaved
    /\ UNCHANGED <<formLyrics, remix, editedRemix, remixed, now, removal>>
    /\ UNCHANGED <<version, analysis, activeTab, uiPc, submitted,
                   clicks, lastClick, lastSuccessful, callVars>>
    /\ UNCHANGED <<lyrics, pc, lines, syllableData, lastWords, index,
                   rhymeScheme, rhymeLabel, usedLabels, outcome, result, error>>

\* lines 105-108: handleRemoveSaved(lyric.id), from the Remove button of the
\* card of one saved entry (line 306)
HandleRemoveSaved ==
    /\ \E i \in DOMAIN savedLyrics :
           LET id == savedLyrics[i].id
               kept == SelectSeq(savedLyrics, LAMBDA lyric : lyric.id # id)
           IN  /\ savedLyrics' = kept
               /\ removal' = [kind |-> "removed", index |-> i,
                              dropped |-> {j \in DOMAIN savedLyrics :
                                               savedLyrics[j].id = id}]
    /\ toast' = SavedLyricRemoved
    /\ UNCHANGED <<formLyrics, remix, editedRemix, remixed, now>>
    /\ UNCHANGED <<version, analysis, activeTab, uiPc, submitted,
                   clicks, lastClick, lastSuccessful, callVars>>
    /\ UNCHANGED <<lyrics, pc, lines, syllableData, lastWords, index,
                   rhymeScheme, rhymeLabel, usedLabels, outcome, result, error>>

\* the client-side version, mounted, with lyrics in the field
InitSaved ==
    /\ version = "local"
    /\ Mounted
    /\ formLyrics \in SavedTexts
    /\ lyrics = Str(<<>>)
    /\ pc = "start"
    /\ lines = <<>>
    /\ syllableData = <<>>
    /\ lastWords = <<>>
    /\ index = 0
    /\ rhymeScheme = <<>>
    /\ rhymeLabel = <<"A">>
    /\ usedLabels = <<>>
    /\ outcome = "running"
    /\ result = NoResult
    /\ error = <<>>
    /\ calls = 1
    /\ finished = <<>>

NextSaved == OnRemix \/ EditRemix \/ HandleSave \/ HandleRemoveSaved \/ ClockTick

SpecSaved == InitSaved /\ [][NextSaved]_vars

(***************************************************************************)
(* Properties of analyzeLyrics                                             *)
(***************************************************************************)
IsString == lyrics.typeof = "string"

Returned == pc = "done" /\ outcome = "returned"

\* the call returned the two full reports
Reported == Returned /\ result.syllableAnalysis.kind = "syllables"

\* the characters the claims call blank: space, tab and newline
OnlyBlanks(chars) == \A i \in DOMAIN chars : chars[i] \in {" ", "\t", "\n"}

HasLetter(chars) == \E i \in DOMAIN chars : chars[i] \in Range(Lower) \cup Range(Upper)

\* the input lines that are not blank, trimmed, in input order
NonBlankLines ==
    LET raw == SplitNewline(lyrics.chars)
        at == {i \in DOMAIN raw : ~OnlyBlanks(raw[i])}
    IN  [k \in 1..Cardinality(at) |-> Trim(raw[KthOf(at, k)])]

\* C1: analyze("") returns normally, both reports being the text
\* "No lyrics provided.", and raises no error.
C1_EmptyStringReturnsSentinel ==
    (pc = "done" /\ lyrics = Str(<<>>)) =>
        /\ outcome = "returned"
        /\ error = <<>>
        /\ result.syllableAnalysis = Sentinel
        /\ result.rhymeAnalysis = Sentinel

\* C2: a non-empty string made of spaces, tabs and newlines only returns
\* normally with both reports equal to "No lyrics provided.", and no error.
C2_BlankStringReturnsSentinel ==
    (pc = "done" /\ IsString /\ lyrics.chars # <<>> /\ OnlyBlanks(lyrics.chars)) =>
        /\ outcome = "returned"
        /\ error = <<>>
        /\ result.syllableAnalysis = Sentinel
        /\ result.rhymeAnalysis = Sentinel

C2_Witness ==
    /\ Returned
    /\ result = SentinelResult
    /\ {"\t", "\n", " "} \subseteq Range(lyrics.chars)

\* C3: an argument that is not a string ends the call in one error whose
\* message is "Analysis failed: " followed by the cause, and no report is
\* returned.
C3_NonStringThrowsWrapped ==
    (pc = "done" /\ ~IsString) =>
        /\ outcome = "threw"
        /\ Len(error) = 2
        /\ error[1] = "Analysis failed: "
        /\ error[2] = InvalidInput
        /\ result = NoResult

C3_Witness ==
    /\ pc = "done"
    /\ lyrics.typeof = "number"
    /\ outcome = "threw"
    /\ error = <<"Analysis failed: ", InvalidInput>>

\* C4: for an input with at least one non-blank line, the reported total of
\* syllables is the sum of the counts listed in the line-by-line breakdown.
C4_TotalIsSumOfBreakdown ==
    (pc = "done" /\ IsString /\ ~OnlyBlanks(lyrics.chars)) =>
        /\ Reported
        /\ LET breakdown == result.syllableAnalysis.breakdown
           IN  result.syllableAnalysis.totalSyllables =
                   SumSeq([k \in DOMAIN breakdown |-> breakdown[k].syllables])

C4_Witness ==
    /\ Reported
    /\ Len(result.syllableAnalysis.breakdown) = 3
    /\ result.syllableAnalysis.breakdown[1].syllables = 2
    /\ result.syllableAnalysis.breakdown[2].syllables = 0
    /\ result.syllableAnalysis.breakdown[3].syllables = 3
    /\ result.syllableAnalysis.totalSyllables = 5

\* C5, as claimed: every line of the filtered sequence has a syllable count
\* of at least 1, whatever characters it contains.
C5_EveryLineAtLeastOne ==
    \A i \in DOMAIN syllableData : syllableData[i].syllables >= 1

\* C5, amended: every line of the filtered sequence that contains a letter
\* (a-z or A-Z) has a syllable count of at least 1, whatever other
\* characters it contains; a line of digits and punctuation only counts 0.
C5_LetteredLineAtLeastOne ==
    /\ \A i \in DOMAIN syllableData :
          /\ HasLetter(lines[i]) => syllableData[i].syllables >= 1
          /\ ~HasLetter(lines[i]) => syllableData[i].syllables = 0
    /\ Reported =>
          \A k \in DOMAIN result.syllableAnalysis.breakdown :
              HasLetter(NonBlankLines[k]) =>
                  result.syllableAnalysis.breakdown[k].syllables >= 1

C5_Witness ==
    /\ Reported
    /\ \E i \in DOMAIN lines :
          /\ HasLetter(lines[i])
          /\ \E j \in DOMAIN lines[i] : lines[i][j] \in Digits
          /\ syllableData[i].syllables = 1
          /\ result.syllableAnalysis.breakdown[i].syllables = 1

\* C6: with n >= 1 non-blank input lines there are exactly n syllable records
\* and n rhyme labels, the k-th of each for the k-th non-blank line and
\* numbered k; blank input lines take no number.
C6_OneRecordAndLabelPerLine ==
    (pc = "done" /\ IsString /\ ~OnlyBlanks(lyrics.chars)) =>
        /\ Reported
        /\ LET n == Len(NonBlankLines)
               breakdown == result.syllableAnalysis.breakdown
               mapping == result.rhymeAnalysis.mapping
           IN  /\ n >= 1
               /\ result.syllableAnalysis.totalLines = n
               /\ Len(breakdown) = n
               /\ Len(result.rhymeAnalysis.scheme) = n
               /\ Len(mapping) = n
               /\ \A k \in 1..n :
                     /\ breakdown[k].line = k
                     /\ breakdown[k].text = DisplayText(NonBlankLines[k])
                     /\ mapping[k].line = k
                     /\ mapping[k].text = NonBlankLines[k]
                     /\ mapping[k].label = result.rhymeAnalysis.scheme[k]
                     /\ mapping[k].label = rhymeScheme[k]

C6_Witness ==
    /\ Reported
    /\ Len(SplitNewline(lyrics.chars)) = 4
    /\ OnlyBlanks(SplitNewline(lyrics.chars)[1])
    /\ OnlyBlanks(SplitNewline(lyrics.chars)[3])
    /\ Len(result.rhymeAnalysis.scheme) = 2
    /\ result.syllableAnalysis.breakdown[2].line = 2

\* C7: two lines whose ending words rhyme under the suffix rule carry the
\* same label, whatever lines lie between them; "cat\nhat\nbat" gives A A A
\* and "Hello there\nNo one's near\nGoodbye my dear" gives A B B.
C7_RhymingLinesShareLabel ==
    /\ \A i, j \in DOMAIN rhymeScheme :
          WordsRhyme(lastWords[i], lastWords[j]) => rhymeScheme[i] = rhymeScheme[j]
    /\ (pc = "done" /\ lyrics = CatHatBat) =>
          /\ Reported
          /\ result.rhymeAnalysis.scheme = <<<<"A">>, <<"A">>, <<"A">>>>
    /\ (pc = "done" /\ lyrics = HelloThere) =>
          /\ Reported
          /\ result.rhymeAnalysis.scheme = <<<<"A">>, <<"B">>, <<"B">>>>

C7_Witness ==
    /\ Reported
    /\ Len(rhymeScheme) = 4
    /\ WordsRhyme(lastWords[1], lastWords[4])
    /\ lastWords[2] # <<>>
    /\ ~WordsRhyme(lastWords[2], lastWords[4])
    /\ rhymeScheme[1] = <<"A">>
    /\ rhymeScheme[2] = <<"B">>
    /\ rhymeScheme[4] = <<"A">>

\* C8: two lines with the same non-empty ending word receive the same label,
\* whatever other lines come before, between or after them.
C8_SameWordSameLabel ==
    \A i, j \in DOMAIN rhymeScheme :
        (lastWords[i] # <<>> /\ lastWords[i] = lastWords[j]) =>
            rhymeScheme[i] = rhymeScheme[j]

C8_Witness ==
    /\ Reported
    /\ Len(rhymeScheme) = 4
    /\ lastWords[1] = lastWords[4]
    /\ lastWords[2] # <<>>
    /\ \A i \in 1..3 : ~WordsRhyme(lastWords[i], lastWords[4])
    /\ rhymeScheme[1] = <<"A">>
    /\ rhymeScheme[2] = <<"B">>
    /\ rhymeScheme[4] = <<"A">>

Without(s, i) == SubSeq(s, 1, i - 1) \o SubSeq(s, i + 1, Len(s))

\* C9: a line without an ending word is labelled '-'; the labels of the other
\* lines, the label counter and the memo are those of the pass over the
\* lines without it.
C9_SkippedLineLeavesPassUnchanged ==
    \A i \in DOMAIN rhymeScheme :
        lastWords[i] = <<>> =>
            /\ rhymeScheme[i] = Dash
            /\ LET words == Without(SubSeq(lastWords, 1, Len(rhymeScheme)), i)
                   st == RhymePass(words, Len(words))
               IN  /\ st.rhymeScheme = Without(rhymeScheme, i)
                   /\ st.rhymeLabel = rhymeLabel
                   /\ st.usedLabels = usedLabels

C9_Witness ==
    /\ Reported
    /\ Len(rhymeScheme) = 4
    /\ lastWords[2] = <<>>
    /\ rhymeScheme = <<<<"A">>, Dash, <<"B">>, <<"A">>>>
    /\ rhymeLabel = <<"C">>

\* the k-th label of the counter: 'A', and then the next of the one before
RECURSIVE NthLabel(_)
NthLabel(k) == IF k = 1 THEN <<"A">> ELSE NextLabel(NthLabel(k - 1))

\* C10: ignoring '-', the k-th distinct label of the scheme, read left to
\* right, is the k-th label of the counter: 'A' first, 'A'..'Z' for the first
\* 26 new groups, and "AA" for the 27th.
C10_NewLabelsFollowCounter ==
    LET labels == LabelsInOrder(rhymeScheme)
    IN  \A k \in DOMAIN labels :
            /\ labels[k] = NthLabel(k)
            /\ k <= 26 => labels[k] = <<Upper[k]>>
            /\ k = 27 => labels[k] = <<"A", "A">>

\* C11: the label minted immediately after 'AZ' is 'BA': once 'AZ' is in the
\* scheme the counter holds 'BA', and the next distinct label of the scheme
\* is 'BA'.
C11_AfterAZComesBA ==
    LET labels == LabelsInOrder(rhymeScheme)
    IN  \A k \in DOMAIN labels :
            labels[k] = <<"A", "Z">> =>
                IF k = Len(labels) THEN rhymeLabel = <<"B", "A">>
                ELSE labels[k + 1] = <<"B", "A">>

\* the longest prefix of an input that is analysed on its own
MaxPrefix == 24

\* C12: label assignment never looks forward: the scheme of the analysis of
\* the first k lines alone is the first k labels of the scheme of all the
\* lines, for every k up to the number of labelled lines (and MaxPrefix).
C12_SchemeOfPrefixIsPrefixOfScheme ==
    \A k \in 0..MinOf({Len(rhymeScheme), MaxPrefix}) :
        RhymePass(SubSeq(lastWords, 1, k), k).rhymeScheme = SubSeq(rhymeScheme, 1, k)

\* a later line rhymes with an earlier one, and the earlier labels stand
C12_Witness ==
    /\ Reported
    /\ Len(rhymeScheme) = 3
    /\ lastWords = <<<<"c", "a", "t">>, <<"x">>, <<"h", "a", "t">>>>
    /\ rhymeScheme = <<<<"A">>, <<"B">>, <<"A">>>>

\* C13: the "Rhyming Patterns Found" section lists exactly the labels other
\* than '-' that two or more lines hold, each once, with all its line numbers
\* and their count, larger groups first and groups of one size in the order
\* their labels first appear in the scheme; the section stands exactly when
\* there is such a label, and the "No clear rhyming patterns detected."
\* message exactly when there is none.
C13_PatternsAreTheSharedLabels ==
    Reported =>
        LET ra == result.rhymeAnalysis
            p == ra.patterns
            held(l) == {i \in DOMAIN rhymeScheme : rhymeScheme[i] = l}
            shared == {l \in Range(rhymeScheme) \ {Dash} : Cardinality(held(l)) >= 2}
        IN  /\ {p[i].label : i \in DOMAIN p} = shared
            /\ Len(p) = Cardinality(shared)
            /\ \A i \in DOMAIN p :
                   /\ Range(p[i].lineNumbers) = held(p[i].label)
                   /\ Len(p[i].lineNumbers) = Cardinality(held(p[i].label))
                   /\ p[i].count = Cardinality(held(p[i].label))
            /\ \A i, j \in DOMAIN p :
                   i < j =>
                       \/ p[i].count > p[j].count
                       \/ /\ p[i].count = p[j].count
                          /\ MinOf(held(p[i].label)) < MinOf(held(p[j].label))
            /\ ra.patternsFound = (shared # {})
            /\ ra.noClearPatterns = (shared = {})

\* the group of three is listed before the pair that appears first
C13_Witness ==
    /\ Reported
    /\ rhymeScheme = <<<<"A">>, <<"B">>, <<"B">>, <<"A">>, <<"B">>>>
    /\ result.rhymeAnalysis.patternsFound
    /\ result.rhymeAnalysis.patterns =
           <<[label |-> <<"B">>, lineNumbers |-> <<2, 3, 5>>, count |-> 3],
             [label |-> <<"A">>, lineNumbers |-> <<1, 4>>, count |-> 2]>>

\* C14: for an input with a line that is not blank, the reported average,
\* in tenths, is a tenth nearest to the total of the syllables divided by the
\* number of lines that are not blank.
C14_AverageIsQuotientRoundedToTenth ==
    (Returned /\ Len(NonBlankLines) >= 1) =>
        /\ Reported
        /\ LET sa == result.syllableAnalysis
               n == Len(NonBlankLines)
               off == sa.avgSyllables * n - 10 * sa.totalSyllables
           IN  /\ 2 * off <= n
               /\ 2 * off >= 0 - n

\* 29 syllables on 20 lines are reported as 1.4
C14_Witness ==
    /\ Reported
    /\ result.syllableAnalysis.totalLines = 20
    /\ result.syllableAnalysis.totalSyllables = 29
    /\ result.syllableAnalysis.avgSyllables = 14

\* C15: a call returns, or throws, what every finished call on the same
\* argument returned or threw, whatever was analysed in between.
C15_SameInputSameReports ==
    pc = "done" =>
        \A i \in DOMAIN finished :
            finished[i].lyrics = lyrics =>
                /\ finished[i].outcome = outcome
                /\ finished[i].result = result
                /\ finished[i].error = error

\* the same lines analysed before and after lines that use up other labels
C15_Witness ==
    /\ Reported
    /\ Len(finished) = 2
    /\ lyrics = CatHatBat
    /\ finished[1].lyrics = CatHatBat
    /\ finished[2].lyrics = Str(JoinPairs(LongLinesMixed(MaxMixed)))
    /\ finished[2].outcome = "returned"
    /\ rhymeScheme = <<<<"A">>, <<"A">>, <<"A">>>>

\* C16: after a click on Analyze whose analysis failed, the error message is
\* on display and the analysis shown is the one the last successful click
\* set.
C16_FailedAnalyzeKeepsAnalysis ==
    lastClick = "failed" =>
        /\ toast.kind = "toast"
        /\ toast.title = "Analysis Failed"
        /\ analysis = lastSuccessful

\* the letters a-z of a word, after lowercasing
CleanedWord(word) == SelectSeq(ToLowerCase(word), LAMBDA c : c \in Range(Lower))

\* the maximal runs of a, e, i, o, u, y in a cleaned word, one per run end
VowelRuns(clean) ==
    LET vowels == {"a", "e", "i", "o", "u", "y"}
    IN  Cardinality({i \in DOMAIN clean :
                        /\ clean[i] \in vowels
                        /\ i = Len(clean) \/ clean[i + 1] \notin vowels})

\* 0 for a word without a letter, and max(1, r - d) otherwise
SyllablesByRule(word) ==
    LET clean == CleanedWord(word)
        r == VowelRuns(clean)
        d == IF clean[Len(clean)] = "e" /\ r > 1 THEN 1 ELSE 0
    IN  IF clean = <<>> THEN 0 ELSE MaxOf({1, r - d})

\* the words of a line: its maximal runs of characters that are not blank
WordsOfLine(line) ==
    LET first == {i \in DOMAIN line :
                     ~IsSpace(line[i]) /\ (i = 1 \/ IsSpace(line[i - 1]))}
        last == {i \in DOMAIN line :
                    ~IsSpace(line[i]) /\ (i = Len(line) \/ IsSpace(line[i + 1]))}
    IN  [k \in 1..Cardinality(first) |-> SubSeq(line, KthOf(first, k), KthOf(last, k))]

\* C17: countSyllables gives every word of every line 0 when the word has no
\* letter a-z after lowercasing and max(1, r - d) otherwise, r being the
\* number of maximal vowel runs of the cleaned word and d being 1 when it
\* ends in 'e' and r > 1; the count of a line is the sum over its words.
C17_SyllablesByRule ==
    \A i \in DOMAIN syllableData :
        LET words == WordsOfLine(lines[i])
        IN  /\ \A k \in DOMAIN words : CountSyllables(words[k]) = SyllablesByRule(words[k])
            /\ syllableData[i].syllables =
                   SumSeq([k \in DOMAIN words |-> SyllablesByRule(words[k])])

\* a silent e: two vowel runs, one syllable
C17_Witness ==
    /\ pc = "rhyme"
    /\ lines = <<<<"a", "t", "e">>>>
    /\ Len(syllableData) = 1
    /\ syllableData[1].syllables = 1

\* two different words of two characters or more that end in the same two
SameLastTwo(w1, w2) ==
    /\ w1 # w2
    /\ Len(w1) >= 2
    /\ Len(w2) >= 2
    /\ SubSeq(w1, Len(w1) - 1, Len(w1)) = SubSeq(w2, Len(w2) - 1, Len(w2))

\* C18: for the ending word of the line just labelled and the ending word of
\* any line, wordsRhyme is true exactly when the words differ, both have two
\* characters or more and their last two characters are equal, whatever
\* their last three and four are; it gives the same for the words in either
\* order, and a word of one character rhymes with none.
C18_RhymeIsSameLastTwo ==
    \A i, j \in DOMAIN lastWords :
        i = index =>
            /\ WordsRhyme(lastWords[i], lastWords[j]) = SameLastTwo(lastWords[i], lastWords[j])
            /\ WordsRhyme(lastWords[i], lastWords[j]) = WordsRhyme(lastWords[j], lastWords[i])
            /\ Len(lastWords[i]) = 1 => ~WordsRhyme(lastWords[i], lastWords[j])

\* a word of two letters rhymes with a longer word that ends in it
C18_Witness ==
    /\ Reported
    /\ lastWords = <<<<"a", "t">>, <<"t", "a", "t">>>>
    /\ WordsRhyme(lastWords[2], lastWords[1])
    /\ rhymeScheme = <<<<"A">>, <<"A">>>>

\* C19: two lines with ending words that carry one label have the same ending
\* word or ending words that rhyme.
C19_SharedLabelMeansSameOrRhyming ==
    \A i, j \in DOMAIN rhymeScheme :
        (lastWords[i] # <<>> /\ lastWords[j] # <<>> /\ rhymeScheme[i] = rhymeScheme[j]) =>
            \/ lastWords[i] = lastWords[j]
            \/ WordsRhyme(lastWords[i], lastWords[j])

\* one label on three rhyming lines and on a repeated word, another on the
\* word between them
C19_Witness ==
    /\ Reported
    /\ lastWords = <<<<"x">>, <<"c","a","t">>, <<"h","a","t">>, <<"x">>, <<"b","a","t">>>>
    /\ rhymeScheme = <<<<"A">>, <<"B">>, <<"B">>, <<"A">>, <<"B">>>>

\* a label of the counter: capital letters only
IsCounterLabel(l) == \A i \in DOMAIN l : l[i] \in Range(Upper)

\* the letter after a capital below 'Z'
LetterAfter(c) == Upper[IndexOf(Upper, c) + 1]

\* next is what the increment rule makes of label
AdvancedTo(label, next) ==
    IF Len(label) = 1 /\ label[1] # "Z" THEN next = <<LetterAfter(label[1])>>
    ELSE IF label = <<"Z">> THEN next = <<"A", "A">>
    ELSE IF label[Len(label)] = "Z"
    THEN next = SubSeq(label, 1, Len(label) - 1) \o <<"A", "A">>
    ELSE next = SubSeq(label, 1, Len(label) - 1) \o <<LetterAfter(label[Len(label)])>>

\* C20: the counter never mints a label twice: the label it holds is on no
\* line yet; and each label it minted led to the next one, and the last one
\* to the label it holds, by the increment rule: the next letter after a
\* single letter below 'Z', "AA" after 'Z', the final 'Z' of a longer label
\* replaced by "AA", and otherwise the last character advanced.
C20_CounterMintsEachLabelOnce ==
    LET minted == SelectSeq(LabelsInOrder(rhymeScheme), IsCounterLabel)
    IN  /\ rhymeLabel \notin Range(rhymeScheme)
        /\ \A k \in DOMAIN minted :
               AdvancedTo(minted[k], IF k = Len(minted) THEN rhymeLabel ELSE minted[k + 1])

\* more than 52 labels minted
C20_Witness ==
    /\ Reported
    /\ Len(rhymeScheme) >= 54
    /\ rhymeScheme[52] = <<"A", "Z">>
    /\ rhymeScheme[53] = <<"A", "A", "A">>
    /\ rhymeScheme[54] = <<"A", "A", "B">>
    /\ Cardinality(Range(rhymeScheme)) = Len(rhymeScheme)

(***************************************************************************)
(* Properties of the Remix button                                          *)
(***************************************************************************)
\* how many times x occurs in the sequence s
Occurrences(s, x) == Cardinality({i \in DOMAIN s : s[i] = x})

SameMultiset(s, t) ==
    \A x \in Range(s) \cup Range(t) : Occurrences(s, x) = Occurrences(t, x)

\* the lines of the text that hold a character other than white space, as
\* they stand in the text, in its order
LinesWithText(chars) ==
    LET raw == SplitNewline(chars)
        at == {i \in DOMAIN raw : \E c \in DOMAIN raw[i] : ~IsSpace(raw[i][c])}
    IN  [k \in 1..Cardinality(at) |-> raw[KthOf(at, k)]]

\* C21: whatever the random choices of a Remix click were, the lines of the
\* remix are the lines of the submitted text that are not empty after
\* trimming, each as many times as the text has it; and when the text has no
\* such line the remix is null.
C21_RemixIsPermutationOfNonBlankLines ==
    remixed # Null =>
        LET kept == LinesWithText(remixed.chars)
        IN  IF Len(kept) = 0
            THEN remix = Null
            ELSE /\ remix # Null
                 /\ Len(SplitNewline(remix.chars)) = Len(kept)
                 /\ SameMultiset(SplitNewline(remix.chars), kept)

\* a remix of the text with two equal lines, an empty and a blank line among
\* its lines: the indented line has moved to the front
C21_Witness ==
    /\ remixed = Str(LaOhLa)
    /\ remix # Null
    /\ SplitNewline(remix.chars)[1] = <<" ", " ">> \o SubSeq(Lower, 9, 14)
    /\ SplitNewline(remix.chars) # LinesWithText(remixed.chars)

(***************************************************************************)
(* Properties of the saved list                                            *)
(***************************************************************************)
\* C22: the saved entries have ids that differ from one another, and the
\* last click on a Remove button dropped from the list the one entry of its
\* card and no other.
C22_RemoveTakesExactlyItsEntry ==
    /\ \A i, j \in DOMAIN savedLyrics :
           i # j => savedLyrics[i].id # savedLyrics[j].id
    /\ removal # Null => removal.dropped = {removal.index}

====
